---- MODULE Spec2Model ----
(***************************************************************************)
(* Model of game-of-life-rs (src/src/main.rs): the GameOfLife grid, the    *)
(* BrailleRenderer and the control loop of BrailleRenderer::run.           *)
(*                                                                         *)
(* Four specifications share the variables:                                *)
(*   Spec         the program: main, run (setup, loop, teardown)           *)
(*   SpecNoInput  the program when no input arrives, with fair scheduling  *)
(*   SpecGrid  the GameOfLife API driven by an arbitrary caller            *)
(*   SpecTest  the unit test test_count_neighbors                          *)
(***************************************************************************)
EXTENDS Integers, Sequences, FiniteSets, TLC

(* ---- bounds of the model ---- *)
\* the grids of SpecGrid have at most MaxCells cells
MaxCells == 9
\* the terminal of Spec has at most MaxTermCells character cells
MaxTermCells == 2
\* Spec explores the random streams that repeat with this period
RngPeriod == 2

(* ---- program constants ---- *)
\* const DELAY: Duration = Duration::from_millis(50), in milliseconds
DELAY == 50

VARIABLES
    pc,       \* position of the program
    game,     \* the GameOfLife struct: [size |-> <<w, h>>, grid |-> Seq(BOOLEAN)]
    op,       \* the last call of the caller of SpecGrid and SpecTest
    ret,      \* the value returned by the last count_neighbors call
    surf,     \* dimensions of the BufferedTerminal's surface, <<width, height>>
    term,     \* dimensions <<cols, rows>> of the terminal at startup or in the
              \* last Resized event
    pending,  \* changes added to the surface and not yet flushed
    screen,   \* state of the physical terminal
    effects,  \* what the current loop iteration has done to the game and the
              \* terminal so far, in order
    elapsed,  \* start.elapsed(), in ms, saturated at DELAY + 1
    since,    \* the time since the last step of the loop, or since the loop
              \* started, in ms, saturated at DELAY + 1
    result    \* what run() returned

vars == <<pc, game, op, ret, surf, term, pending, screen, effects, elapsed, since,
          result>>

(***************************************************************************)
(* GameOfLife                                                              *)
(***************************************************************************)
saturating_sub(a, b) == IF a >= b THEN a - b ELSE 0

min(a, b) == IF a <= b THEN a ELSE b

\* lo..=hi as the sequence a Rust range iterates
RangeSeq(lo, hi) == [k \in 1..(hi - lo + 1) |-> lo + k - 1]

\* the pairs <<a, b>> a loop over as with an inner loop over bs visits, in order
Nested(as, bs) ==
    [k \in 1..(Len(as) * Len(bs)) |->
        <<as[((k - 1) \div Len(bs)) + 1], bs[((k - 1) % Len(bs)) + 1]>>]

\* for y in 0..size.1 { for x in 0..size.0 { .. } }: the <<x, y>> visited
Cells(size) ==
    [k \in 1..(size[1] * size[2]) |-> <<(k - 1) % size[1], (k - 1) \div size[1]>>]

\* x + y * self.size.0, the index into the Vec (0-based)
Index(g, x, y) == x + y * g.size[1]

\* Vec indexing panics when the index is not below len()
InVec(g, x, y) == Index(g, x, y) < Len(g.grid)

get(g, x, y) == g.grid[Index(g, x, y) + 1]

set(g, x, y, value) == [g EXCEPT !.grid[Index(g, x, y) + 1] = value]

\* init: every cell is set to the next gen_bool(0.7) of the thread's rng;
\* bits is the sequence of values the rng produces
RECURSIVE init_loop(_, _, _, _)
init_loop(g, cells, bits, k) ==
    IF k > Len(cells) THEN g
    ELSE init_loop(set(g, cells[k][1], cells[k][2], bits[k]), cells, bits, k + 1)

init(g, bits) == init_loop(g, Cells(g.size), bits, 1)

new(size, bits) ==
    init([size |-> size, grid |-> [k \in 1..(size[1] * size[2]) |-> FALSE]], bits)

\* the coordinates the two loops of count_neighbors visit
NeighborLoop(g, x, y) ==
    Nested(RangeSeq(saturating_sub(x, 1), min(x + 1, g.size[1] - 1)),
           RangeSeq(saturating_sub(y, 1), min(y + 1, g.size[2] - 1)))

\* the coordinates count_neighbors passes to get, in order
IsNotCentre(c, x, y) == ~(c[1] = x /\ c[2] = y)

count_neighbors_reads(g, x, y) ==
    SelectSeq(NeighborLoop(g, x, y), LAMBDA c : IsNotCentre(c, x, y))

RECURSIVE count_loop(_, _, _, _, _)
count_loop(g, x, y, cs, count) ==
    IF cs = <<>> THEN count
    ELSE LET i == Head(cs)[1]
             j == Head(cs)[2]
         IN  count_loop(g, x, y, Tail(cs),
                 IF i = x /\ j = y THEN count
                 ELSE IF get(g, i, j) THEN count + 1
                 ELSE count)

\* the mutant of count_neighbors: without the `continue` on the centre
RECURSIVE count_all(_, _, _)
count_all(g, cs, count) ==
    IF cs = <<>> THEN count
    ELSE count_all(g, Tail(cs),
             IF get(g, Head(cs)[1], Head(cs)[2]) THEN count + 1 ELSE count)

count_neighbors_centre(g, x, y) == count_all(g, NeighborLoop(g, x, y), 0)

count_neighbors(g, x, y) == count_loop(g, x, y, NeighborLoop(g, x, y), 0)

\* the match of step on (cell, neighbors)
next_cell(cell, neighbors) ==
    IF cell /\ (neighbors = 2 \/ neighbors = 3) THEN TRUE
    ELSE IF cell THEN FALSE
    ELSE IF neighbors = 3 THEN TRUE
    ELSE FALSE

\* the loop of step: reads self (g), writes next
RECURSIVE step_loop(_, _, _, _)
step_loop(g, next, cells, k) ==
    IF k > Len(cells) THEN next
    ELSE LET x == cells[k][1]
             y == cells[k][2]
         IN  step_loop(g,
                 [next EXCEPT ![Index(g, x, y) + 1] =
                     next_cell(get(g, x, y), count_neighbors(g, x, y))],
                 cells, k + 1)

\* the mutant of step: the generation is updated in place, so later cells read
\* the cells already written
RECURSIVE step_in_place_loop(_, _, _)
step_in_place_loop(g, cells, k) ==
    IF k > Len(cells) THEN g
    ELSE LET x == cells[k][1]
             y == cells[k][2]
         IN  step_in_place_loop(
                 set(g, x, y, next_cell(get(g, x, y), count_neighbors(g, x, y))),
                 cells, k + 1)

step_in_place(g) == step_in_place_loop(g, Cells(g.size), 1)

step(g) == [g EXCEPT !.grid = step_loop(g, g.grid, Cells(g.size), 1)]

(***************************************************************************)
(* SpecGrid: the GameOfLife API under an arbitrary caller that respects    *)
(* the bounds of the grid                                                  *)
(***************************************************************************)
NoGame == [size |-> <<0, 0>>, grid |-> <<>>]

NoRet == [x |-> 0, y |-> 0, n |-> 0, reads |-> <<>>]

\* the terminal before run: main screen, cooked mode, cursor shown
NoScreen == [alt |-> FALSE, raw |-> FALSE, cursor |-> TRUE]

\* every outcome of size[0] * size[1] calls of gen_bool
RngAll(size) == [1..(size[1] * size[2]) -> BOOLEAN]

LoopIdle ==
    /\ surf = <<0, 0>>
    /\ term = <<0, 0>>
    /\ pending = <<>>
    /\ screen = NoScreen
    /\ effects = <<>>
    /\ elapsed = 0
    /\ since = 0
    /\ result = "none"

LoopUnchanged ==
    UNCHANGED <<surf, term, pending, screen, effects, elapsed, since, result>>

\* the sizes of SpecGrid: at least one column and one row
Sizes == {sz \in (1..MaxCells) \X (1..MaxCells) : sz[1] * sz[2] <= MaxCells}

InitGrid ==
    /\ pc = "api_new"
    /\ game = NoGame
    /\ op = "none"
    /\ ret = NoRet
    /\ LoopIdle

ApiNew ==
    /\ pc = "api_new"
    /\ \E size \in Sizes : \E bits \in RngAll(size) : game' = new(size, bits)
    /\ op' = "new"
    /\ pc' = "api"
    /\ UNCHANGED ret
    /\ LoopUnchanged

ApiSet ==
    /\ pc = "api"
    /\ \E x \in 0..(game.size[1] - 1), y \in 0..(game.size[2] - 1), value \in BOOLEAN :
          game' = set(game, x, y, value)
    /\ op' = "set"
    /\ ret' = NoRet
    /\ UNCHANGED pc
    /\ LoopUnchanged

ApiCountNeighbors ==
    /\ pc = "api"
    /\ \E x \in 0..(game.size[1] - 1), y \in 0..(game.size[2] - 1) :
          ret' = [x |-> x, y |-> y, n |-> count_neighbors(game, x, y),
                  reads |-> count_neighbors_reads(game, x, y)]
    /\ op' = "count"
    /\ UNCHANGED <<pc, game>>
    /\ LoopUnchanged

ApiStep ==
    /\ pc = "api"
    /\ game' = step(game)
    /\ op' = "step"
    /\ ret' = NoRet
    /\ UNCHANGED pc
    /\ LoopUnchanged

NextGrid == ApiNew \/ ApiSet \/ ApiCountNeighbors \/ ApiStep

SpecGrid == InitGrid /\ [][NextGrid]_vars

(***************************************************************************)
(* SpecTest: #[test] fn test_count_neighbors                               *)
(***************************************************************************)
\* the cells the test sets to true, in the order of its calls
TestCells == <<<<0, 0>>, <<1, 0>>, <<2, 0>>, <<0, 1>>, <<1, 1>>, <<2, 1>>>>

\* the position of the test before each of its calls after new
TestPc == <<"test_set1", "test_set2", "test_set3", "test_set4", "test_set5",
            "test_set6", "test_count">>

InitTest ==
    /\ pc = "test_new"
    /\ game = NoGame
    /\ op = "none"
    /\ ret = NoRet
    /\ LoopIdle

\* let mut game = GameOfLife::new((3, 3));
TestNew ==
    /\ pc = "test_new"
    /\ \E bits \in RngAll(<<3, 3>>) : game' = new(<<3, 3>>, bits)
    /\ op' = "new"
    /\ pc' = TestPc[1]
    /\ UNCHANGED ret
    /\ LoopUnchanged

\* game.set(.., .., true), six times
TestSet ==
    /\ \E k \in 1..Len(TestCells) :
          /\ pc = TestPc[k]
          /\ game' = set(game, TestCells[k][1], TestCells[k][2], TRUE)
          /\ pc' = TestPc[k + 1]
    /\ op' = "set"
    /\ UNCHANGED ret
    /\ LoopUnchanged

\* let neighbors = GameOfLife::count_neighbors(&game, 1, 1);
TestCount ==
    /\ pc = "test_count"
    /\ ret' = [x |-> 1, y |-> 1, n |-> count_neighbors(game, 1, 1),
                reads |-> count_neighbors_reads(game, 1, 1)]
    /\ op' = "count"
    /\ pc' = "test_assert"
    /\ UNCHANGED game
    /\ LoopUnchanged

NextTest == TestNew \/ TestSet \/ TestCount

SpecTest == InitTest /\ [][NextTest]_vars

(***************************************************************************)
(* BrailleRenderer                                                         *)
(***************************************************************************)
\* the mutant of size: three sub-cells per character in both directions
size_square(dims) == <<dims[1] * 3, dims[2] * 3>>

\* BrailleRenderer::size: (w * 2, h * 3) of the surface's dimensions
size(dims) == <<dims[1] * 2, dims[2] * 3>>

\* vec![vec![[false; 6]; game.size.0 / 2]; game.size.1 / 3]
EmptyGroups(g) ==
    [row \in 1..(g.size[2] \div 3) |->
        [col \in 1..(g.size[1] \div 2) |-> [slot \in 1..6 |-> FALSE]]]

\* the slot of its block in which render stores cell (x, y)
Slot(x, y) == (y % 3) + (x % 2)

\* the loop of render that fills groups
RECURSIVE groups_loop(_, _, _, _)
groups_loop(g, groups, cells, k) ==
    IF k > Len(cells) THEN groups
    ELSE LET x == cells[k][1]
             y == cells[k][2]
         IN  groups_loop(g,
                 [groups EXCEPT ![(y \div 3) + 1][(x \div 2) + 1][Slot(x, y) + 1] =
                     get(g, x, y)],
                 cells, k + 1)

Groups(g) == groups_loop(g, EmptyGroups(g), Cells(g.size), 1)

\* BRAILLE[cell[0]][cell[3]][cell[1]][cell[4]][cell[2]][cell[5]][0][0]: the
\* character is named by its path in the table of the braille crate
Glyph(cell) == <<cell[1], cell[4], cell[2], cell[5], cell[3], cell[6], FALSE, FALSE>>

\* chars: one row of characters per row of groups
CharsOf(groups) ==
    [row \in 1..Len(groups) |->
        [col \in 1..Len(groups[row]) |-> Glyph(groups[row][col])]]

Chars(g) == CharsOf(Groups(g))

\* the surface after the check at the head of render
RenderSurface(g, dims) ==
    IF dims # <<g.size[1] \div 2, g.size[2] \div 3>>
    THEN <<g.size[1], g.size[2]>>
    ELSE dims

\* the mutant of RenderChanges: the cursor is not moved to the origin
RenderChanges_no_cursor(g) ==
    LET chars == Chars(g)
    IN  [row \in 1..(g.size[2] \div 3) |-> [change |-> "Text", text |-> chars[row]]]

\* the changes render adds: the cursor position, then one text per row
RenderChanges(g) ==
    <<[change |-> "CursorPosition", x |-> 0, y |-> 0]>>
    \o LET chars == Chars(g)
       IN  [row \in 1..(g.size[2] \div 3) |-> [change |-> "Text", text |-> chars[row]]]

\* the cursor visibility after the changes of q are applied to the terminal
RECURSIVE ApplyCursor(_, _)
ApplyCursor(cursor, q) ==
    IF q = <<>> THEN cursor
    ELSE ApplyCursor(IF Head(q).change = "CursorVisibility" THEN Head(q).visible
                     ELSE cursor, Tail(q))

\* BufferedTerminal::flush: the pending changes reach the terminal, or the
\* terminal fails and they stay pending
FlushScreen(scr, q, ok) ==
    IF ok THEN [scr EXCEPT !.cursor = ApplyCursor(scr.cursor, q)] ELSE scr

FlushPending(q, ok) == IF ok THEN <<>> ELSE q

(***************************************************************************)
(* Spec: main and BrailleRenderer::run                                     *)
(***************************************************************************)
\* the outcomes of gen_bool that Spec explores: the streams of period RngPeriod
RngStreams(sz) ==
    {[k \in 1..(sz[1] * sz[2]) |-> s[((k - 1) % RngPeriod) + 1]] :
        s \in [1..RngPeriod -> BOOLEAN]}

\* the dimensions <<cols, rows>> of the terminal: at least one column and row
TermDims ==
    {d \in (1..MaxTermCells) \X (1..MaxTermCells) : d[1] * d[2] <= MaxTermCells}

\* the cells <<x, y>> of the terminals of TermDims, counted from 0
TermCells == {<<d[1] - 1, d[2] - 1>> : d \in TermDims}

\* elapsed after d more milliseconds; only its order with DELAY is observed
Later(e, d) == min(e + d, DELAY + 1)

Init ==
    /\ pc = "main"
    /\ game = NoGame
    /\ op = "none"
    /\ ret = NoRet
    /\ term \in TermDims
    /\ surf = term
    /\ pending = <<>>
    /\ screen = NoScreen
    /\ effects = <<>>
    /\ elapsed = 0
    /\ since = 0
    /\ result = "none"

\* main: let mut game = GameOfLife::new(render.size());
Main ==
    /\ pc = "main"
    /\ \E bits \in RngStreams(size(surf)) : game' = new(size(surf), bits)
    /\ pc' = "run"
    /\ UNCHANGED <<op, ret, surf, term, pending, screen, effects, elapsed, since, result>>

\* run, up to the loop: enter_alternate_screen()?, set_raw_mode()?, hide the
\* cursor, start = Instant::now()
Setup ==
    /\ pc = "run"
    /\ \E alt_ok \in BOOLEAN, raw_ok \in BOOLEAN :
          IF ~alt_ok
          THEN /\ result' = "Err"
               /\ pc' = "returned"
               /\ UNCHANGED <<screen, pending>>
          ELSE IF ~raw_ok
          THEN /\ screen' = [screen EXCEPT !.alt = TRUE]
               /\ result' = "Err"
               /\ pc' = "returned"
               /\ UNCHANGED pending
          ELSE /\ screen' = [screen EXCEPT !.alt = TRUE, !.raw = TRUE]
               /\ pending' = Append(pending,
                                [change |-> "CursorVisibility", visible |-> FALSE])
               /\ pc' = "loop"
               /\ UNCHANGED result
    /\ elapsed' = 0
    /\ since' = 0
    /\ UNCHANGED <<game, op, ret, surf, term, effects>>

\* time passes while poll_input waits
Tick ==
    /\ pc = "poll"
    /\ elapsed < DELAY + 1 \/ since < DELAY + 1
    /\ elapsed' = Later(elapsed, DELAY)
    /\ since' = Later(since, DELAY)
    /\ UNCHANGED <<pc, game, op, ret, surf, term, pending, screen, effects, result>>

\* the mutant of Anchor: start is never moved
Anchor_keep ==
    /\ pc = "loop"
    /\ effects' = <<>>
    /\ pc' = "poll"
    /\ UNCHANGED <<game, op, ret, surf, term, pending, screen, elapsed, since, result>>

\* the head of the loop: if start.elapsed() >= DELAY { start = Instant::now(); }
Anchor ==
    /\ pc = "loop"
    /\ elapsed' = IF elapsed >= DELAY THEN 0 ELSE elapsed
    /\ effects' = <<>>
    /\ pc' = "poll"
    /\ UNCHANGED <<game, op, ret, surf, term, pending, screen, since, result>>

\* poll_input returns Key: 'q' breaks, any other key falls to the gate
PollKey ==
    /\ pc = "poll"
    /\ \E key \in {"q", "x"} :
          /\ effects' = IF key = "q" THEN <<<<"break", "q">>>> ELSE <<>>
          /\ pc' = IF key = "q" THEN "teardown" ELSE "gate"
    /\ UNCHANGED <<game, op, ret, surf, term, pending, screen, elapsed, since, result>>

\* the grid of size sz that keeps the cells of g at the coordinates both
\* grids have and takes the others from bits
carry(g, sz, bits) ==
    [size |-> sz,
     grid |-> [k \in 1..(sz[1] * sz[2]) |->
                 LET x == (k - 1) % sz[1]
                     y == (k - 1) \div sz[1]
                 IN  IF x < g.size[1] /\ y < g.size[2] THEN get(g, x, y) ELSE bits[k]]]

\* the mutant of PollResized: the grid is resized in place
PollResized_carry ==
    /\ pc = "poll"
    /\ \E dims \in TermDims :
          /\ term' = dims
          /\ \E bits \in RngStreams(<<dims[1] * 2, dims[2] * 3>>) :
                /\ game' = carry(game, <<dims[1] * 2, dims[2] * 3>>, bits)
                /\ effects' = <<<<"new", dims, bits>>>>
    /\ pc' = "loop"
    /\ UNCHANGED <<op, ret, surf, pending, screen, elapsed, since, result>>

\* poll_input returns Resized { cols, rows }: the game is replaced, continue
PollResized ==
    /\ pc = "poll"
    /\ \E dims \in TermDims :
          /\ term' = dims
          /\ \E bits \in RngStreams(<<dims[1] * 2, dims[2] * 3>>) :
                /\ game' = new(<<dims[1] * 2, dims[2] * 3>>, bits)
                /\ effects' = <<<<"new", dims, bits>>>>
    /\ pc' = "loop"
    /\ UNCHANGED <<op, ret, surf, pending, screen, elapsed, since, result>>

\* the mutant of PollWake: a Wake falls to the gate like a key
PollWake_fall ==
    /\ pc = "poll"
    /\ effects' = <<<<"Wake">>>>
    /\ pc' = "gate"
    /\ UNCHANGED <<game, op, ret, surf, term, pending, screen, elapsed, since, result>>

\* poll_input returns Wake: continue
PollWake ==
    /\ pc = "poll"
    /\ effects' = <<<<"Wake">>>>
    /\ pc' = "loop"
    /\ UNCHANGED <<game, op, ret, surf, term, pending, screen, elapsed, since, result>>

\* the cells the Mouse arm sets for an event at (x, y), in order
PaintCells(x, y) ==
    [k \in 1..6 |-> <<(x * 2) + ((k - 1) % 2), (y * 3) + ((k - 1) \div 2)>>]

\* the loops of the Mouse arm: each set either writes the Vec or, with an
\* index not below len(), panics and ends the loops
RECURSIVE paint_loop(_, _, _)
paint_loop(g, cells, k) ==
    IF k > Len(cells) THEN [game |-> g, panic |-> FALSE]
    ELSE IF ~InVec(g, cells[k][1], cells[k][2]) THEN [game |-> g, panic |-> TRUE]
    ELSE paint_loop(set(g, cells[k][1], cells[k][2], TRUE), cells, k + 1)

\* poll_input returns Mouse at a cell (x, y) of the terminal, whose dimensions
\* now may be any (its Resized event, if it was resized, is still to be
\* polled): with the left button the block is painted
PollMouse ==
    /\ pc = "poll"
    /\ \E left \in BOOLEAN :
          IF ~left
          THEN /\ effects' = <<>>
               /\ pc' = "gate"
               /\ UNCHANGED <<game, result>>
          ELSE \E at \in TermCells :
               LET x == at[1]
                   y == at[2]
                   painted == paint_loop(game, PaintCells(x, y), 1)
               IN  /\ game' = painted.game
                   /\ effects' = IF painted.panic
                                 THEN <<<<"paint", x, y>>, <<"panic">>>>
                                 ELSE <<<<"paint", x, y>>>>
                   /\ pc' = IF painted.panic THEN "panicked" ELSE "gate"
                   /\ result' = IF painted.panic THEN "panic" ELSE result
    /\ UNCHANGED <<op, ret, surf, term, pending, screen, elapsed, since>>

\* poll_input returns any other event (the `_` arm)
PollOther ==
    /\ pc = "poll"
    /\ effects' = <<>>
    /\ pc' = "gate"
    /\ UNCHANGED <<game, op, ret, surf, term, pending, screen, elapsed, since, result>>

\* the mutant of PollNone: a timeout continues like a Wake
PollNone_continue ==
    /\ pc = "poll"
    /\ effects' = <<>>
    /\ elapsed' = Later(elapsed, DELAY + 1)
    /\ since' = Later(since, DELAY + 1)
    /\ pc' = "loop"
    /\ UNCHANGED <<game, op, ret, surf, term, pending, screen, result>>

\* poll_input returns Ok(None): it has waited the timeout of DELAY, and the
\* call itself takes time
PollNone ==
    /\ pc = "poll"
    /\ effects' = <<>>
    /\ elapsed' = Later(elapsed, DELAY + 1)
    /\ since' = Later(since, DELAY + 1)
    /\ pc' = "gate"
    /\ UNCHANGED <<game, op, ret, surf, term, pending, screen, result>>

\* the mutant of PollErr: the error is noted and the loop polls again
PollErr_retry ==
    /\ pc = "poll"
    /\ effects' = <<<<"break", "Err">>>>
    /\ pc' = "loop"
    /\ UNCHANGED <<game, op, ret, surf, term, pending, screen, elapsed, since, result>>

\* poll_input returns Err(_): break
PollErr ==
    /\ pc = "poll"
    /\ effects' = <<<<"break", "Err">>>>
    /\ pc' = "teardown"
    /\ UNCHANGED <<game, op, ret, surf, term, pending, screen, elapsed, since, result>>

\* the grid, the frame and the calls of a trigger whose step has produced
\* stepped: render adds the frame of that grid and flushes
rendered(stepped, frame) ==
    [game |-> stepped, frame |-> frame,
     calls |-> << <<"step">>, <<"render", frame>>, <<"flush", "render">> >>]

\* the mutant of trigger: the grid is rendered before it is stepped
trigger_render_first(g) ==
    [game |-> step(g), frame |-> RenderChanges(g),
     calls |-> << <<"render", RenderChanges(g)>>, <<"flush", "render">>, <<"step">> >>]

\* game.step(); self.render(&game);
trigger(g) == rendered(step(g), RenderChanges(step(g)))

\* if start.elapsed() <= DELAY { continue; } game.step(); self.render(&game);
\* self.screen.flush()?; where render ends with self.screen.flush().ok()
Gate ==
    /\ pc = "gate"
    /\ IF elapsed <= DELAY
       THEN /\ pc' = "loop"
            /\ UNCHANGED <<game, surf, pending, screen, effects, since, result>>
       ELSE \E t \in {trigger(game)} :
            \E render_flush_ok \in BOOLEAN, run_flush_ok \in BOOLEAN :
              LET added == pending \o t.frame
                  screen1 == FlushScreen(screen, added, render_flush_ok)
                  pending1 == FlushPending(added, render_flush_ok)
              IN  /\ game' = t.game
                  /\ surf' = RenderSurface(t.game, surf)
                  /\ screen' = FlushScreen(screen1, pending1, run_flush_ok)
                  /\ pending' = FlushPending(pending1, run_flush_ok)
                  /\ effects' = effects \o t.calls \o << <<"flush", "run">> >>
                  /\ since' = 0
                  /\ result' = IF run_flush_ok THEN result ELSE "Err"
                  /\ pc' = IF run_flush_ok THEN "loop" ELSE "returned"
    /\ UNCHANGED <<op, ret, term, elapsed>>

\* after the loop: exit_alternate_screen()?, show the cursor, Ok(())
Teardown ==
    /\ pc = "teardown"
    /\ \E exit_ok \in BOOLEAN :
          IF exit_ok
          THEN /\ screen' = [screen EXCEPT !.alt = FALSE]
               /\ pending' = Append(pending,
                                [change |-> "CursorVisibility", visible |-> TRUE])
               /\ result' = "Ok"
          ELSE /\ result' = "Err"
               /\ UNCHANGED <<screen, pending>>
    /\ pc' = "returned"
    /\ UNCHANGED <<game, op, ret, surf, term, effects, elapsed, since>>

\* main: render.run(&mut game)?; Ok(()) and the exit code of the process
main_exit(run_result) == IF run_result = "Ok" THEN 0 ELSE 1

Next ==
    \/ Main
    \/ Setup
    \/ Tick
    \/ Anchor
    \/ PollKey
    \/ PollResized
    \/ PollWake
    \/ PollMouse
    \/ PollOther
    \/ PollNone
    \/ PollErr
    \/ Gate
    \/ Teardown

Spec == Init /\ [][Next]_vars

(***************************************************************************)
(* SpecNoInput: the program when every poll_input times out; the thread    *)
(* is never suspended for ever, so each step of the program that can be    *)
(* taken is taken. Gate is enabled exactly when pc = "gate" and each of    *)
(* its steps leaves the gate, so WF_vars(Gate) is []<>(pc # "gate"), and   *)
(* it is written so to spare TLC the evaluation of ENABLED on step and     *)
(* render                                                                  *)
(***************************************************************************)
NextNoInput ==
    \/ Main
    \/ Setup
    \/ Tick
    \/ Anchor
    \/ PollNone
    \/ Gate

SpecNoInput ==
    /\ Init
    /\ [][NextNoInput]_vars
    /\ WF_vars(Main)
    /\ WF_vars(Setup)
    /\ WF_vars(Anchor)
    /\ WF_vars(PollNone)
    /\ []<>(pc # "gate")

(***************************************************************************)
(* Properties of the grid                                                  *)
(***************************************************************************)
InGrid(g, c) == c[1] >= 0 /\ c[1] < g.size[1] /\ c[2] >= 0 /\ c[2] < g.size[2]

Coords(g) == (0..(g.size[1] - 1)) \X (0..(g.size[2] - 1))

Abs(n) == IF n < 0 THEN -n ELSE n

\* the cells of the grid in the Moore neighbourhood of <<x, y>>, without <<x, y>>
Moore(g, x, y) ==
    {c \in Coords(g) : Abs(c[1] - x) <= 1 /\ Abs(c[2] - y) <= 1 /\ c # <<x, y>>}

AliveIn(g, cs) == {c \in cs : get(g, c[1], c[2])}

AllDead(g) == \A c \in Coords(g) : ~get(g, c[1], c[2])

SeqRange(q) == {q[k] : k \in 1..Len(q)}

\* C1: immediately after new(size) every cell of the grid reads as dead
C1_NewIsZeroed == (op = "new") => AllDead(game)

\* C2: the assertion of test_count_neighbors: after new((3, 3)) and set(.., true)
\* on the six cells of rows 0 and 1, count_neighbors(1, 1) returns 5
C2_TestCountIsFive == (pc = "test_assert") => (ret.n = 5)

\* C3: count_neighbors(x, y) is the number of alive cells of the grid in the
\* Moore neighbourhood of (x, y) without the centre; it reads exactly those
\* in-bounds neighbours, each once, so a corner has at most 3 and an edge at
\* most 5
C3_CountNeighbors ==
    (op = "count") =>
        /\ ret.n = Cardinality(AliveIn(game, Moore(game, ret.x, ret.y)))
        /\ \A c \in SeqRange(ret.reads) : InGrid(game, c) /\ c # <<ret.x, ret.y>>
        /\ SeqRange(ret.reads) = Moore(game, ret.x, ret.y)
        /\ Len(ret.reads) = Cardinality(SeqRange(ret.reads))
        /\ (ret.x \in {0, game.size[1] - 1} \/ ret.y \in {0, game.size[2] - 1})
               => ret.n <= 5
        /\ (ret.x \in {0, game.size[1] - 1} /\ ret.y \in {0, game.size[2] - 1})
               => ret.n <= 3

\* a corner of a grid of at least 2 x 2 whose three neighbours and centre are alive
C3_Witness ==
    /\ pc = "api"
    /\ op = "count"
    /\ game.size[1] >= 2 /\ game.size[2] >= 2
    /\ ret.x = 0 /\ ret.y = 0
    /\ get(game, 0, 0)
    /\ ret.n = 3

\* the B3/S23 successor of cell c of generation g
Successor(g, c) ==
    LET n == Cardinality(AliveIn(g, Moore(g, c[1], c[2])))
    IN  \/ get(g, c[1], c[2]) /\ n \in {2, 3}
        \/ ~get(g, c[1], c[2]) /\ n = 3

\* C4: step replaces the grid by the B3/S23 successor of the generation that
\* existed when it was called, every count taken on that generation; the size
\* is unchanged, an all-dead grid stays all-dead, a lone live cell dies and a
\* live cell with 4 live neighbours dies
C4_StepIsSuccessor ==
    [][(op' = "step") =>
        /\ game'.size = game.size
        /\ Len(game'.grid) = Len(game.grid)
        /\ \A c \in Coords(game) : get(game', c[1], c[2]) = Successor(game, c)
        /\ AllDead(game) => AllDead(game')
        /\ \A c \in Coords(game) :
              (get(game, c[1], c[2]) /\ AliveIn(game, Moore(game, c[1], c[2])) = {})
                  => ~get(game', c[1], c[2])
        /\ \A c \in Coords(game) :
              (get(game, c[1], c[2])
                  /\ Cardinality(AliveIn(game, Moore(game, c[1], c[2]))) = 4)
                  => ~get(game', c[1], c[2])
      ]_vars

\* a step has produced a generation of a 3 x 3 grid in which the centre is
\* dead and a corner is alive
C4_Witness ==
    /\ pc = "api"
    /\ op = "step"
    /\ game.size = <<3, 3>>
    /\ ~get(game, 1, 1)
    /\ get(game, 0, 0)

(***************************************************************************)
(* Properties of the program                                               *)
(***************************************************************************)
Did(what) == \E k \in 1..Len(effects) : effects[k][1] = what

\* C5: once the game is constructed, and after any step, paint and resize,
\* grid.len() is width * height, the width is even and the height a multiple
\* of 3: twice the columns and three times the rows of the terminal the grid
\* was built from
C5_GridShape ==
    (pc # "main") =>
        /\ Len(game.grid) = game.size[1] * game.size[2]
        /\ game.size[1] % 2 = 0
        /\ game.size[2] % 3 = 0
        /\ \E dims \in TermDims : game.size = <<2 * dims[1], 3 * dims[2]>>

\* a grid rebuilt by a resize has been painted, stepped and rendered
C5_Witness ==
    /\ pc = "loop"
    /\ Did("paint")
    /\ Did("step")
    /\ surf = game.size

\* C6: in the block of terminal cell (col, row), sub-cell (col*2+dx, row*3+dy)
\* is stored in slot dx*3+dy, so the block is the 2 x 3 region of the grid
C6_BlockIsRegion ==
    Did("render") =>
        \A row \in 0..((game.size[2] \div 3) - 1), col \in 0..((game.size[1] \div 2) - 1) :
            \A dx \in {0, 1}, dy \in {0, 1, 2} :
                Groups(game)[row + 1][col + 1][(dx * 3) + dy + 1]
                    = get(game, (col * 2) + dx, (row * 3) + dy)

\* C7: after render(game) the surface is (game.width / 2, game.height / 3)
C7_SurfaceFollowsGrid ==
    Did("render") => surf = <<game.size[1] \div 2, game.size[2] \div 3>>

\* C8: render never flushes; only the loop flushes, once per cadence trigger
C8_RenderNeverFlushes ==
    /\ \A k \in 1..Len(effects) : effects[k][1] = "flush" => effects[k][2] = "run"
    /\ Did("render") => Cardinality({k \in 1..Len(effects) : effects[k][1] = "flush"}) = 1

\* C9: when run returns after its loop was entered, and the calls after the
\* loop did not themselves fail, the alternate screen has been left and the
\* cursor is visible again
C9_TerminalRestored ==
    (/\ pc = "returned"
     /\ screen.raw
     /\ ~(Did("break") /\ result = "Err"))
        => (~screen.alt /\ screen.cursor)

\* C10: a polling error ends the run with an error and a non-zero exit code;
\* a quit key after which the terminal was left cleanly ends it with Ok and 0
C10_PollErrorPropagates ==
    (pc = "returned") =>
        /\ (\E k \in 1..Len(effects) : effects[k] = <<"break", "Err">>)
               => (result = "Err" /\ main_exit(result) # 0)
        /\ ((\E k \in 1..Len(effects) : effects[k] = <<"break", "q">>) /\ ~screen.alt)
               => (result = "Ok" /\ main_exit(result) = 0)

(***************************************************************************)
(* Properties of the control loop                                          *)
(***************************************************************************)
Has(eff, what) == \E k \in 1..Len(eff) : eff[k][1] = what

\* C11: the loop starts Running; the quit key or a polling error takes it to
\* the teardown in that same iteration, which neither paints, steps, renders
\* nor rebuilds the grid, whatever the clock says; from the teardown on the
\* program only returns: no poll, paint, step, render or rebuild follows
C11_QuitEndsLoop ==
    [][/\ (pc = "run" /\ pc' # "returned") => pc' = "loop"
       /\ (Has(effects', "break") /\ ~Has(effects, "break")) =>
             /\ pc = "poll"
             /\ pc' = "teardown"
             /\ Len(effects') = 1
             /\ game' = game
             /\ surf' = surf
             /\ pending' = pending
       /\ (pc \in {"teardown", "returned"}) =>
             /\ pc' = "returned"
             /\ game' = game
             /\ surf' = surf
             /\ effects' = effects
      ]_vars

\* run has returned after a polling error that arrived when more than DELAY
\* had elapsed since the anchor: the grid it leaves was never stepped
C11_Witness ==
    /\ pc = "returned"
    /\ effects = <<<<"break", "Err">>>>
    /\ elapsed > DELAY
    /\ since > DELAY
    /\ screen.cursor

\* C12: after a Resized event carrying (cols, rows) the grid is a new grid of
\* size (2 * cols, 3 * rows) and every cell of it is the value the rng drew
\* for it during the rebuild, whatever the old grid held
C12_ResizeRebuilds ==
    Did("new") =>
        /\ term = effects[1][2]
        /\ game.size = <<2 * term[1], 3 * term[2]>>
        /\ Len(game.grid) = game.size[1] * game.size[2]
        /\ \A c \in Coords(game) :
              get(game, c[1], c[2]) = effects[1][3][c[1] + (c[2] * game.size[1]) + 1]

\* a grid that had been stepped and rendered at another size was rebuilt, and
\* the rng gave the new grid both values
C12_Witness ==
    /\ pc = "loop"
    /\ Did("new")
    /\ surf[2] >= 3
    /\ surf # game.size
    /\ \E c \in Coords(game) : get(game, c[1], c[2])
    /\ \E c \in Coords(game) : ~get(game, c[1], c[2])

\* the block of grid cells of terminal cell (x, y)
Block(x, y) == {<<(2 * x) + dx, (3 * y) + dy>> : dx \in {0, 1}, dy \in {0, 1, 2}}

\* C13: a left-button pointer event at terminal coordinate (x, y) sets the six
\* cells (2x+dx, 3y+dy) to alive and changes nothing else: the other cells
\* and the size of the grid are as before, and no cell is cleared
C13_PaintSetsBlock ==
    [][(pc = "poll" /\ Has(effects', "paint")) =>
          LET x == effects'[1][2]
              y == effects'[1][3]
          IN  /\ pc' = "gate"
              /\ game'.size = game.size
              /\ Len(game'.grid) = Len(game.grid)
              /\ \A c \in Block(x, y) : InGrid(game', c) /\ get(game', c[1], c[2])
              /\ \A c \in Coords(game) \ Block(x, y) :
                    get(game', c[1], c[2]) = get(game, c[1], c[2])
      ]_vars

\* C15: every get and set is in bounds: the paint addresses cells of the
\* current grid only, so it neither panics nor writes another cell, and the
\* cells step and count_neighbors read and the blocks and slots render writes
\* exist
C15_AccessInBounds ==
    /\ pc # "panicked"
    /\ ~Did("panic")
    /\ Did("paint") =>
          \A k \in 1..6 :
              InGrid(game, PaintCells(effects[1][2], effects[1][3])[k])
    /\ (pc # "main") =>
          \A c \in SeqRange(Cells(game.size)) :
              /\ InGrid(game, c)
              /\ \A n \in SeqRange(count_neighbors_reads(game, c[1], c[2])) :
                    InGrid(game, n)
              /\ (c[2] \div 3) < Len(EmptyGroups(game))
              /\ (c[1] \div 2) < Len(EmptyGroups(game)[(c[2] \div 3) + 1])
              /\ Slot(c[1], c[2]) < 6

\* C14: the loop steps at most once per DELAY: when it steps, at least DELAY
\* has passed since its last step, or since the loop started if it has not
\* stepped yet; an iteration that reaches the gate before DELAY has passed
\* since then neither steps, renders nor flushes
C14_AtMostOncePerDelay ==
    [][(pc = "gate") =>
          /\ (Has(effects', "step") /\ ~Has(effects, "step")) => since >= DELAY
          /\ (since < DELAY) =>
                /\ ~Has(effects', "step")
                /\ ~Has(effects', "render")
                /\ ~Has(effects', "flush")
                /\ game' = game
                /\ pending' = pending
                /\ screen' = screen
                /\ pc' = "loop"
      ]_vars

\* the iteration after one that stepped has painted a block and was stopped
\* by the gate: the grid waits for the next interval
C14_Witness ==
    /\ pc = "loop"
    /\ effects = <<<<"paint", 0, 0>>>>
    /\ since < DELAY
    /\ surf = game.size
    /\ ~screen.cursor

\* C16: an iteration that reaches the gate when at least DELAY has passed
\* since the last step, or since the loop started, steps the grid, renders it
\* and flushes
C16_GateOpensWhenDue ==
    [][(pc = "gate" /\ since >= DELAY) =>
          /\ Has(effects', "step")
          /\ Has(effects', "render")
          /\ Has(effects', "flush")
      ]_vars

\* C17: when no input arrives and every poll waits its full timeout, the loop
\* keeps stepping and rendering the grid: as long as run has not returned, an
\* iteration that steps and renders always comes again
C17_NoInputProgress ==
    []<>(pc = "returned" \/ (pc = "loop" /\ Did("step") /\ Did("render")))

\* an iteration that polled nothing has stepped and rendered a grid in which
\* cells are alive, on a terminal whose cursor is already hidden
C17_Witness ==
    /\ pc = "loop"
    /\ Did("step")
    /\ ~Did("paint")
    /\ Did("render")
    /\ ~screen.cursor
    /\ pending = <<>>
    /\ \E c \in Coords(game) : get(game, c[1], c[2])

\* C18: an iteration whose event is a Resized or a Wake ends at once, without
\* step, render or flush, however long ago the last step was: the rebuild is
\* all a Resized does to the grid, and a Wake leaves the grid as it is
C18_ResizeAndWakeSkip ==
    [][(pc = "poll" /\ (Has(effects', "Wake") \/ Has(effects', "new"))) =>
          /\ pc' = "loop"
          /\ Len(effects') = 1
          /\ surf' = surf /\ pending' = pending /\ screen' = screen
          /\ since' = since
          /\ Has(effects', "Wake") => game' = game
          /\ Has(effects', "new") =>
                /\ game'.size = <<2 * term'[1], 3 * term'[2]>>
                /\ \A k \in 1..Len(game'.grid) : game'.grid[k] = effects'[1][3][k]
      ]_vars

\* a Wake was polled more than DELAY after the last step, which had been
\* rendered and flushed, and the iteration is over
C18_Witness ==
    /\ pc = "loop"
    /\ effects = <<<<"Wake">>>>
    /\ elapsed > DELAY
    /\ since > DELAY
    /\ surf = game.size
    /\ pending = <<>>

\* the calls the loop itself makes among the entries of eff
IsLoopCall(e) == e[1] \in {"step", "render"} \/ (e[1] = "flush" /\ e[2] = "run")

LoopCalls(eff) == SelectSeq(eff, IsLoopCall)

\* C19: when the gate opens the loop calls step once, then render once, with
\* the grid that step produced, then flush, in this order; render is called
\* nowhere else, so the grid of main and a rebuilt grid are not drawn before
\* they are stepped, and the loop goes on only when the frame was flushed
C19_StepRenderFlush ==
    [][/\ (pc = "gate" /\ effects' # effects) =>
             LET calls == LoopCalls(SubSeq(effects', Len(effects) + 1, Len(effects')))
             IN  /\ LoopCalls(effects) = <<>>
                 /\ Len(calls) = 3
                 /\ calls[1][1] = "step"
                 /\ calls[2][1] = "render"
                 /\ calls[3][1] = "flush"
                 /\ game' = step(game)
                 /\ calls[2][2] = RenderChanges(game')
                 /\ (pc' = "loop") => (pending' = <<>>)
       /\ (pc # "gate" \/ effects' = effects) =>
             /\ LoopCalls(effects') = <<>> \/ effects' = effects
             /\ game' # game => (Has(effects', "paint") \/ Has(effects', "new")
                                    \/ pc = "main")
      ]_vars

\* an iteration that painted a block has then stepped, rendered and flushed,
\* and cells of the new generation are alive
C19_Witness ==
    /\ pc = "loop"
    /\ Len(effects) = 5
    /\ effects[1][1] = "paint"
    /\ effects[2][1] = "step"
    /\ effects[3][1] = "render"
    /\ effects[5] = <<"flush", "run">>
    /\ \E c \in Coords(game) : get(game, c[1], c[2])

\* the frame of the render among the entries of eff
FrameOf(eff) == eff[CHOOSE k \in 1..Len(eff) : eff[k][1] = "render"][2]

\* C20: a render adds the whole frame and nothing else: one cursor position
\* at (0, 0), then height / 3 texts, the text of row r made of the width / 2
\* glyphs of the blocks of that row from left to right; the frame is that of
\* the grid as the render leaves it, and what is pending afterwards is
\* nothing, or what was pending and the frame
C20_FrameIsWhole ==
    Did("render") =>
        \A frame \in {FrameOf(effects)}, groups \in {Groups(game)} :
            LET rows == game.size[2] \div 3
                cols == game.size[1] \div 2
            IN  /\ Len(frame) = 1 + rows
                /\ frame[1].change = "CursorPosition"
                /\ frame[1].x = 0 /\ frame[1].y = 0
                /\ \A r \in 1..rows :
                      /\ frame[r + 1].change = "Text"
                      /\ Len(frame[r + 1].text) = cols
                      /\ \A c \in 1..cols :
                            frame[r + 1].text[c] = Glyph(groups[r][c])
                /\ \/ pending = <<>>
                   \/ /\ Len(pending) >= Len(frame)
                      /\ SubSeq(pending, Len(pending) - Len(frame) + 1, Len(pending))
                            = frame

\* a grid of two rows of blocks with live cells has been stepped and rendered
C20_Witness ==
    /\ pc = "loop"
    /\ Did("render")
    /\ game.size = <<2, 6>>
    /\ Len(FrameOf(effects)) = 3
    /\ \E c \in Coords(game) : get(game, c[1], c[2])

====
